---------------------------- MODULE Spec2Model ----------------------------
(***************************************************************************)
(* A model of the client-side state synchronisation of chatkit-client-js:  *)
(* the Cursor Store (src/src/cursor-store.js) and the session object       *)
(* CurrentUser (src/src/current-user.js).  The generic Store, the User and *)
(* Room stores and the subscription classes are imported by these files    *)
(* but are not part of the sources at hand; they are modelled from their   *)
(* description in spec.md (sections 4.1, 4.2 and 4.4).                     *)
(*                                                                         *)
(* JavaScript is single threaded: one action is one task of the event loop *)
(* together with the promise callbacks (microtasks) it triggers.           *)
(***************************************************************************)
EXTENDS Integers, Sequences, FiniteSets, TLC

VARIABLES
    cursorStore,        \* CursorStore.store: key -> decorated cursor
    cursorInit,         \* the Cursor Store has been initialized once
    userStore,          \* UserStore: user id -> user record
    userInit,           \* the User Store has been initialized once
    roomStore,          \* RoomStore: room id -> room record
    roomInit,           \* the Room Store has been initialized once
    serverCursor,       \* the server's read cursor per (user, room), 0: none
    requests,           \* GET /cursors/0/rooms/r/users/u requests issued, per key
    getCalls,           \* the CursorStore.get calls made so far
    cursorSubPc,        \* establishCursorSubscription: where it stands
    cursorHook,         \* its hooks hold onNewReadCursor
    cursorChan,         \* events in flight on the user-scoped cursor channel
    nEvents,            \* events the server has sent so far
    userFetches,        \* users whose fetch, started by a cursor event, is in flight
    latestEvent,        \* per key, the cursor of the latest event applied
    roomSubscriptions,  \* CurrentUser.roomSubscriptions: room id -> instance
    subs,               \* the subscribeToRoom calls and the instances they made
    joining,            \* rooms with a joinRoom request (not of a subscribe) in flight
    estPc,              \* establishUserSubscription: where it stands
    basicRooms,         \* the snapshot the User Subscription connected with
    fetchArg,           \* the ids initializeUserStore gave fetchMissingUsers
    fetchOutcome,       \* how that fetchMissingUsers settled
    pendingUserGets,    \* userStore.get calls waiting for the initialization
    setCalls,           \* the CursorStore.set calls made so far
    roomCalls,          \* the calls of createRoom, joinRoom, leaveRoom,
                        \* addUserToRoom and removeUserFromRoom made so far
    msgCalls,           \* the fetchMessages calls made so far
    obs                 \* what the step just taken let the application observe

vars == << cursorStore, cursorInit, userStore, userInit, roomStore, roomInit,
           serverCursor, requests, getCalls, cursorSubPc, cursorHook,
           cursorChan, nEvents, userFetches, latestEvent, roomSubscriptions,
           subs, joining, estPc, basicRooms, fetchArg, fetchOutcome,
           pendingUserGets, setCalls, roomCalls, msgCalls, obs >>

cursorVars == << cursorStore, cursorInit, serverCursor, requests, getCalls,
                 cursorSubPc, cursorHook, cursorChan, nEvents, userFetches,
                 latestEvent >>
roomSubVars == << roomSubscriptions, subs >>
userSubVars == << estPc, basicRooms, fetchArg, fetchOutcome, pendingUserGets >>
opVars == << setCalls, roomCalls, msgCalls >>

----------------------------------------------------------------------------
(* Bounds of the model *)

MaxGets == 2        \* CursorStore.get calls
MaxEvents == 2      \* events sent by the server
MaxSubs == 2        \* subscribeToRoom calls
MaxSets == 2        \* CursorStore.set calls
MaxRoomCalls == 2   \* calls of the operations on rooms
MaxFetches == 1     \* fetchMessages calls

(* The universe *)

LocalUser == "L"                \* CurrentUser.id
Users == {"L", "a"}
Rooms == {1, 2}
WatchedRooms == {1}             \* the rooms whose cursors SpecCursor follows
Keys == Users \X Rooms          \* key(userId, roomId)
Positions == {1, 2}              \* cursor positions
ReadType == 0                   \* the type of a read cursor
CursorTypes == {0, 1}

(* JavaScript values *)

Undefined == [kind |-> "undefined"]
Null == [kind |-> "null"]
Absent == [kind |-> "absent"]   \* the key is not in the mapping
NoObs == [op |-> "none"]

Truthy(v) == v.kind \notin {"undefined", "null"}

----------------------------------------------------------------------------
(* Store<K,V>, spec.md 4.1 *)

StoreGetSync(store, k) == IF store[k] = Absent THEN Undefined ELSE store[k]

StoreSet(store, k, v) == [store EXCEPT ![k] = v]


\* initialize merges the entries whose key is not already present
StoreInitialize(store, entries) ==
    [k \in DOMAIN store |->
        IF store[k] = Absent /\ k \in DOMAIN entries THEN entries[k] ELSE store[k]]

StoreSnapshot(store) == {k \in DOMAIN store : store[k] # Absent}

EmptyEntries == << >>

----------------------------------------------------------------------------
(* Parsers and decoration *)

\* the payload of a cursor, as the server sends it
RawCursor(u, r, p, t) ==
    [kind |-> "json", user_id |-> u, room_id |-> r, position |-> p, cursor_type |-> t]

parseBasicCursor(data) ==
    [kind |-> "BasicCursor", userId |-> data.user_id, roomId |-> data.room_id,
     position |-> data.position, type |-> data.cursor_type]

\* CursorStore.decorate: a Cursor holds the basic fields and the two stores,
\* through which user and room are looked up when they are read
decorate(basicCursor) ==
    IF Truthy(basicCursor)
    THEN [kind |-> "Cursor", userId |-> basicCursor.userId,
          roomId |-> basicCursor.roomId, position |-> basicCursor.position,
          type |-> basicCursor.type]
    ELSE Undefined

User(u) == [kind |-> "User", id |-> u]

Room(r, ids) == [kind |-> "Room", id |-> r, userIds |-> ids]

\* an initialize of the Cursor Store that replaces the mapping
initializeReplacing(initial) ==
    [k \in Keys |-> IF k \in DOMAIN initial THEN decorate(initial[k]) ELSE Absent]

\* CursorStore.initialize(initial): store.initialize(map(this.decorate, initial))
initialize(initial) ==
    StoreInitialize(cursorStore, [k \in DOMAIN initial |-> decorate(initial[k])])

\* CursorStore.getSync
getSync(u, r) == StoreGetSync(cursorStore, <<u, r>>)

\* CurrentUser.rooms and CurrentUser.isMemberOf
rooms == {roomStore[r] : r \in StoreSnapshot(roomStore)}

isMemberOf(roomId) == roomId \in {room.id : room \in rooms}

\* UserStore.fetchMissingUsers: the ids not present in the store
MissingUsers(ids) == {u \in ids : userStore[u] = Absent}


----------------------------------------------------------------------------
(* CursorStore.get, src/src/cursor-store.js *)

CallKey(c) == <<c.userId, c.roomId>>

\* what CursorStore.set resolves with: the array of Promise.all
SetResult == [kind |-> "Array", length |-> 2]

NewGetCall(u, r, prev) ==
    [userId |-> u, roomId |-> r, pc |-> "waiting", resp |-> Null,
     res |-> Undefined, fetched |-> FALSE, prev |-> prev, fresh |-> FALSE,
     disturbed |-> FALSE]

\* the callback of store.get(key): cursor || fetchBasicCursor(...)
GetLookup(c, store) ==
    LET cursor == StoreGetSync(store, CallKey(c))
    IN  IF Truthy(cursor)
        THEN [c EXCEPT !.pc = "resolved", !.res = cursor, !.fresh = TRUE]
        ELSE [c EXCEPT !.pc = "requested", !.fetched = TRUE]

\* a call that has settled and whose result a later set has overtaken: the
\* model keeps its place and its key only
Forgotten(c) == [NewGetCall(c.userId, c.roomId, 0) EXCEPT !.pc = "settled"]

\* the latest get of key k that resolved with no set of k since, 0 if none
LastResolved(k) ==
    LET S == {i \in DOMAIN getCalls :
                /\ CallKey(getCalls[i]) = k
                /\ getCalls[i].pc = "resolved"
                /\ getCalls[i].fresh}
    IN  IF S = {} THEN 0 ELSE CHOOSE i \in S : \A j \in S : j <= i

\* a set of key k, by call `setter` (0: by an event), as the calls see it
MarkSet(calls, k, setter) ==
    [i \in DOMAIN calls |->
        IF CallKey(calls[i]) # k THEN calls[i]
        ELSE IF i = setter THEN [calls[i] EXCEPT !.fresh = TRUE]
        ELSE IF calls[i].pc \in {"resolved", "rejected"}
             THEN Forgotten(calls[i])
        ELSE [calls[i] EXCEPT !.fresh = FALSE, !.disturbed = TRUE]]

\* requests of key k coalesced: one for all the calls that miss in a step, none
\* while a request of the key is in flight
NewRequestsCoalesced(old, new, k) ==
    IF /\ \E i \in DOMAIN new : /\ CallKey(new[i]) = k
                                /\ new[i].pc = "requested"
                                /\ (i \notin DOMAIN old \/ old[i].pc # "requested")
       /\ ~\E i \in DOMAIN old : CallKey(old[i]) = k /\ old[i].pc = "requested"
    THEN 1 ELSE 0

\* the requests fetchBasicCursor issues for key k in a step: one for every call
\* whose lookup missed
NewRequests(old, new, k) ==
    Cardinality({i \in DOMAIN new :
        /\ CallKey(new[i]) = k
        /\ new[i].pc = "requested"
        /\ (i \notin DOMAIN old \/ old[i].pc # "requested")})

\* a get that looks the key up at once, initialized or not
GetCallNotWaiting(u, r) ==
    /\ Len(getCalls) < MaxGets
    /\ LET new == Append(getCalls,
                    GetLookup(NewGetCall(u, r, LastResolved(<<u, r>>)), cursorStore))
       IN  /\ getCalls' = new
           /\ requests' = [k \in Keys |-> requests[k] + NewRequests(getCalls, new, k)]
    /\ UNCHANGED << cursorStore, cursorInit, serverCursor, cursorSubPc, cursorHook,
                    cursorChan, nEvents, userFetches, latestEvent >>
    /\ obs' = NoObs
    /\ UNCHANGED << userStore, userInit, roomStore, roomInit, joining >>
    /\ UNCHANGED << roomSubVars, userSubVars >>
    /\ UNCHANGED opVars

\* CursorStore.get(userId, roomId)
GetCall(u, r) ==
    /\ Len(getCalls) < MaxGets
    /\ LET c0 == NewGetCall(u, r, LastResolved(<<u, r>>))
           c == IF cursorInit THEN GetLookup(c0, cursorStore) ELSE c0
           new == Append(getCalls, c)
       IN  /\ getCalls' = new
           /\ requests' = [k \in Keys |-> requests[k] + NewRequests(getCalls, new, k)]
    /\ UNCHANGED << cursorStore, cursorInit, serverCursor, cursorSubPc, cursorHook,
                    cursorChan, nEvents, userFetches, latestEvent >>
    /\ obs' = NoObs
    /\ UNCHANGED << userStore, userInit, roomStore, roomInit, joining >>
    /\ UNCHANGED << roomSubVars, userSubVars >>
    /\ UNCHANGED opVars

\* the server answers the request of call i with the cursor it holds
ServerAnswer(i) ==
    /\ getCalls[i].pc = "requested"
    /\ LET k == CallKey(getCalls[i])
           data == IF serverCursor[k] = 0 THEN Null
                   ELSE RawCursor(k[1], k[2], serverCursor[k], ReadType)
       IN  getCalls' = [getCalls EXCEPT ![i].pc = "responded", ![i].resp = data]
    /\ UNCHANGED << cursorStore, cursorInit, serverCursor, requests, cursorSubPc,
                    cursorHook, cursorChan, nEvents, userFetches, latestEvent >>
    /\ obs' = NoObs
    /\ UNCHANGED << userStore, userInit, roomStore, roomInit, joining >>
    /\ UNCHANGED << roomSubVars, userSubVars >>
    /\ UNCHANGED opVars

\* fetchBasicCursor: the request fails, the error is logged and thrown again
FetchFail(i) ==
    /\ getCalls[i].pc = "requested"
    /\ getCalls' = [getCalls EXCEPT ![i] = Forgotten(@)]
    /\ UNCHANGED << cursorStore, cursorInit, serverCursor, requests, cursorSubPc,
                    cursorHook, cursorChan, nEvents, userFetches, latestEvent >>
    /\ obs' = NoObs
    /\ UNCHANGED << userStore, userInit, roomStore, roomInit, joining >>
    /\ UNCHANGED << roomSubVars, userSubVars >>
    /\ UNCHANGED opVars

\* fetchBasicCursor's then: data ? parseBasicCursor(data) : undefined
FetchedCursor(data) == IF Truthy(data) THEN parseBasicCursor(data) ELSE Undefined

\* the response arrives: fetchBasicCursor resolves and get calls this.set
GetResponse(i) ==
    /\ getCalls[i].pc = "responded"
    /\ LET c == getCalls[i]
           k == CallKey(c)
           cursor == FetchedCursor(c.resp)
           marked == MarkSet(getCalls, k, i)
       IN  /\ cursorStore' = StoreSet(cursorStore, k, decorate(cursor))
           /\ IF MissingUsers({c.userId}) = {}
              THEN getCalls' = [marked EXCEPT ![i].pc = "resolved", ![i].res = SetResult]
              ELSE getCalls' = [marked EXCEPT ![i].pc = "setting"]
    /\ UNCHANGED << cursorInit, serverCursor, requests, cursorSubPc, cursorHook,
                    cursorChan, nEvents, userFetches, latestEvent >>
    /\ obs' = NoObs
    /\ UNCHANGED << userStore, userInit, roomStore, roomInit, joining >>
    /\ UNCHANGED << roomSubVars, userSubVars >>
    /\ UNCHANGED opVars

\* the fetchMissingUsers([userId]) of this.set settles, and with it Promise.all
GetSetSettle(i, ok) ==
    /\ getCalls[i].pc = "setting"
    /\ IF ok
       THEN /\ getCalls' = [getCalls EXCEPT ![i].pc = "resolved", ![i].res = SetResult]
            /\ userStore' = StoreSet(userStore, getCalls[i].userId, User(getCalls[i].userId))
       ELSE /\ getCalls' = [getCalls EXCEPT ![i].pc = "rejected", ![i].resp = Null]
            /\ UNCHANGED userStore
    /\ UNCHANGED << cursorStore, cursorInit, serverCursor, requests, cursorSubPc,
                    cursorHook, cursorChan, nEvents, userFetches, latestEvent >>
    /\ obs' = NoObs
    /\ UNCHANGED << userInit, roomStore, roomInit, joining >>
    /\ UNCHANGED << roomSubVars, userSubVars >>
    /\ UNCHANGED opVars

----------------------------------------------------------------------------
(* CursorStore.set, src/src/cursor-store.js 27-32 *)

\* a set whose promise does not wait for the fetch of the user
NewSetCallNotWaiting(u, r, basic) ==
    [userId |-> u, roomId |-> r, cursor |-> basic, written |-> TRUE,
     fetching |-> MissingUsers({u}) # {}, early |-> ~cursorInit,
     pc |-> "resolved"]

\* One record per call of set: the cursor given, whether the store was
\* written, whether fetchMissingUsers([userId]) had to fetch and has settled,
\* whether the call came before the first initialize, and its promise
NewSetCall(u, r, basic) ==
    [userId |-> u, roomId |-> r, cursor |-> basic, written |-> TRUE,
     fetching |-> MissingUsers({u}) # {}, early |-> ~cursorInit,
     pc |-> IF MissingUsers({u}) # {} THEN "pending" ELSE "resolved"]

\* the latest set call of key k, 0 if there is none
LastSet(k) ==
    LET S == {i \in DOMAIN setCalls : CallKey(setCalls[i]) = k}
    IN  IF S = {} THEN 0 ELSE CHOOSE i \in S : \A j \in S : j <= i

\* set(userId, roomId, cursor): store.set(key, decorate(cursor)) and
\* fetchMissingUsers([userId]), under Promise.all
SetCall(u, r, p, t) ==
    /\ Len(setCalls) < MaxSets
    /\ LET basic == parseBasicCursor(RawCursor(u, r, p, t))
       IN  /\ cursorStore' = StoreSet(cursorStore, <<u, r>>, decorate(basic))
           /\ setCalls' = Append(setCalls, NewSetCall(u, r, basic))
    /\ getCalls' = MarkSet(getCalls, <<u, r>>, 0)
    /\ obs' = NoObs
    /\ UNCHANGED << cursorInit, serverCursor, requests, cursorSubPc, cursorHook,
                    cursorChan, nEvents, userFetches, latestEvent >>
    /\ UNCHANGED << userStore, userInit, roomStore, roomInit, joining >>
    /\ UNCHANGED << roomSubVars, userSubVars >>
    /\ UNCHANGED << roomCalls, msgCalls >>

\* the fetchMissingUsers([userId]) of set call i settles, and with it Promise.all
SetSettle(i, ok) ==
    /\ setCalls[i].pc = "pending"
    /\ setCalls[i].fetching
    /\ setCalls' = [setCalls EXCEPT ![i].fetching = FALSE,
                                    ![i].pc = IF ok THEN "resolved" ELSE "rejected"]
    /\ userStore' = IF ok THEN StoreSet(userStore, setCalls[i].userId,
                                        User(setCalls[i].userId))
                    ELSE userStore
    /\ obs' = NoObs
    /\ UNCHANGED << userInit, roomStore, roomInit, joining >>
    /\ UNCHANGED << cursorVars, roomSubVars, userSubVars >>
    /\ UNCHANGED << roomCalls, msgCalls >>

----------------------------------------------------------------------------
(* The cursor subscription of the user, src/src/current-user.js 450-472 *)

\* a newCursor hook of the user's subscription that filters as the one of a
\* room's subscription does
UserNewCursorAsRoom(hasHook, cursor) ==
    IF hasHook /\ cursor.type = ReadType /\ cursor.userId # LocalUser
    THEN 1 ELSE 0

\* the newCursor hook establishCursorSubscription gives its CursorSubscription:
\* how many times it calls hooks.onNewReadCursor
UserNewCursor(hasHook, cursor) ==
    IF hasHook /\ cursor.type = ReadType /\ isMemberOf(cursor.roomId)
    THEN 1 ELSE 0

\* establishCursorSubscription(hooks): the subscription is made and connect() called
EstablishCursorSubscription(hasHook) ==
    /\ cursorSubPc = "idle"
    /\ cursorSubPc' = "connecting"
    /\ cursorHook' = hasHook
    /\ UNCHANGED << cursorStore, cursorInit, serverCursor, requests, getCalls,
                    cursorChan, nEvents, userFetches, latestEvent >>
    /\ obs' = NoObs
    /\ UNCHANGED << userStore, userInit, roomStore, roomInit, joining >>
    /\ UNCHANGED << roomSubVars, userSubVars >>
    /\ UNCHANGED opVars

\* connect() resolves: then cursorStore.initialize({}), which lets the waiting
\* gets go on
CursorSubConnected ==
    /\ cursorSubPc = "connecting"
    /\ cursorSubPc' = "resolved"
    /\ cursorInit' = TRUE
    /\ cursorStore' = initialize(EmptyEntries)
    /\ LET new == [i \in DOMAIN getCalls |->
                     IF getCalls[i].pc = "waiting"
                     THEN GetLookup(getCalls[i], cursorStore')
                     ELSE getCalls[i]]
       IN  /\ getCalls' = new
           /\ requests' = [k \in Keys |-> requests[k] + NewRequests(getCalls, new, k)]
    /\ UNCHANGED << serverCursor, cursorHook, cursorChan, nEvents, userFetches,
                    latestEvent >>
    /\ obs' = NoObs
    /\ UNCHANGED << userStore, userInit, roomStore, roomInit, joining >>
    /\ UNCHANGED << roomSubVars, userSubVars >>
    /\ UNCHANGED opVars

\* connect() rejects: the error is logged and thrown again
CursorSubFailed ==
    /\ cursorSubPc = "connecting"
    /\ cursorSubPc' = "rejected"
    /\ UNCHANGED << cursorStore, cursorInit, serverCursor, requests, getCalls,
                    cursorHook, cursorChan, nEvents, userFetches, latestEvent >>
    /\ obs' = NoObs
    /\ UNCHANGED << userStore, userInit, roomStore, roomInit, joining >>
    /\ UNCHANGED << roomSubVars, userSubVars >>
    /\ UNCHANGED opVars

\* a cursor of user u in room r is set on the server; the user-scoped channel
\* of the local user carries the local user's cursors
ServerSetCursor(u, r, p, t) ==
    /\ nEvents < MaxEvents
    /\ LET sent == u = LocalUser /\ cursorSubPc = "resolved"
       IN  /\ t # ReadType => sent
           /\ cursorChan' = IF sent THEN Append(cursorChan, RawCursor(u, r, p, t))
                            ELSE cursorChan
    /\ serverCursor' = IF t = ReadType THEN [serverCursor EXCEPT ![<<u, r>>] = p]
                       ELSE serverCursor
    /\ t = ReadType => serverCursor[<<u, r>>] # p
    /\ nEvents' = nEvents + 1
    /\ UNCHANGED << cursorStore, cursorInit, requests, getCalls, cursorSubPc,
                    cursorHook, userFetches, latestEvent >>
    /\ obs' = NoObs
    /\ UNCHANGED << userStore, userInit, roomStore, roomInit, joining >>
    /\ UNCHANGED << roomSubVars, userSubVars >>
    /\ UNCHANGED opVars

\* CursorSubscription, on a cursor event: the cursor is parsed and set in the
\* Cursor Store (which also starts fetchMissingUsers), then given to newCursor
DeliverCursorEvent ==
    /\ cursorChan # << >>
    /\ LET basic == parseBasicCursor(Head(cursorChan))
           k == <<basic.userId, basic.roomId>>
       IN  /\ cursorStore' = StoreSet(cursorStore, k, decorate(basic))
           /\ userFetches' = userFetches \cup MissingUsers({basic.userId})
           /\ getCalls' = MarkSet(getCalls, k, 0)
           /\ latestEvent' = [latestEvent EXCEPT ![k] = decorate(basic)]
           /\ obs' = [op |-> "userCursorEvent", cursor |-> decorate(basic),
                      member |-> roomStore[basic.roomId] # Absent,
                      hookCalls |-> UserNewCursor(cursorHook, decorate(basic))]
    /\ cursorChan' = Tail(cursorChan)
    /\ UNCHANGED << cursorInit, serverCursor, requests, cursorSubPc, cursorHook,
                    nEvents >>
    /\ UNCHANGED << userStore, userInit, roomStore, roomInit, joining >>
    /\ UNCHANGED << roomSubVars, userSubVars >>
    /\ UNCHANGED opVars

\* a fetch of user u that an event started settles
UserFetchSettle(u, ok) ==
    /\ u \in userFetches
    /\ userFetches' = userFetches \ {u}
    /\ userStore' = IF ok THEN StoreSet(userStore, u, User(u)) ELSE userStore
    /\ UNCHANGED << cursorStore, cursorInit, serverCursor, requests, getCalls,
                    cursorSubPc, cursorHook, cursorChan, nEvents, latestEvent >>
    /\ obs' = NoObs
    /\ UNCHANGED << userInit, roomStore, roomInit, joining >>
    /\ UNCHANGED << roomSubVars, userSubVars >>
    /\ UNCHANGED opVars

----------------------------------------------------------------------------
(* joinRoom, src/src/current-user.js 165-183 *)

\* parseBasicRoom of the response of a join: the room, the local user a member
JoinedRoom(r, others) == Room(r, others \cup {LocalUser})

\* joinRoom({ roomId }) of a room that is not in the Room Store: the request
JoinRoom(r) ==
    /\ ~isMemberOf(r)
    /\ r \notin joining
    /\ joining' = joining \cup {r}
    /\ obs' = NoObs
    /\ UNCHANGED << userStore, userInit, roomStore, roomInit >>
    /\ UNCHANGED << cursorVars, roomSubVars, userSubVars >>
    /\ UNCHANGED opVars

\* the response: roomStore.set(basicRoom.id, basicRoom)
JoinRoomOk(r, others) ==
    /\ r \in joining
    /\ joining' = joining \ {r}
    /\ roomStore' = StoreSet(roomStore, r, JoinedRoom(r, others))
    /\ obs' = NoObs
    /\ UNCHANGED << userStore, userInit, roomInit >>
    /\ UNCHANGED << cursorVars, roomSubVars, userSubVars >>
    /\ UNCHANGED opVars

\* the request fails: the error is logged and thrown again
JoinRoomFail(r) ==
    /\ r \in joining
    /\ joining' = joining \ {r}
    /\ obs' = NoObs
    /\ UNCHANGED << userStore, userInit, roomStore, roomInit >>
    /\ UNCHANGED << cursorVars, roomSubVars, userSubVars >>
    /\ UNCHANGED opVars

----------------------------------------------------------------------------
(* createRoom, joinRoom, leaveRoom, addUserToRoom and removeUserFromRoom as
   calls with a result, src/src/current-user.js 125-146, 165-236 *)

RoomOps == {"createRoom", "joinRoom", "leaveRoom", "addUserToRoom",
            "removeUserFromRoom"}

\* RoomStore (spec.md 4.2): pop removes the room; addUserToRoom and
\* removeUserFromRoom change the members of the cached room and do nothing if
\* the room is not cached
RoomStorePop(store, r) == [store EXCEPT ![r] = Absent]

RoomStoreAddUser(store, r, u) ==
    IF store[r] = Absent THEN store
    ELSE [store EXCEPT ![r] = Room(r, store[r].userIds \cup {u})]

RoomStoreRemoveUser(store, r, u) ==
    IF store[r] = Absent THEN store
    ELSE [store EXCEPT ![r] = Room(r, store[r].userIds \ {u})]

\* a joinRoom that always asks the server
NeverCached(roomId) == FALSE

\* joinRoom: if (this.isMemberOf(roomId)) return this.roomStore.get(roomId)
JoinIsCached(roomId) == isMemberOf(roomId)

\* a catch that logs the error and does not throw it
RoomOpCatchSwallowing(c) == [c EXCEPT !.pc = "resolved", !.failed = TRUE]

\* .catch(err => { this.logger.warn(...); throw err })
RoomOpCatch(c) == [c EXCEPT !.pc = "rejected", !.failed = TRUE]

\* One record per call: the operation and its arguments, whether joinRoom
\* found the room in the Room Store, the requests issued, whether the request
\* failed, the promise and what it resolved with
NewRoomCall(op, r, u) ==
    LET cached == op = "joinRoom" /\ JoinIsCached(r)
    IN  [op |-> op, roomId |-> r, userId |-> u, cached |-> cached,
         requests |-> IF cached THEN 0 ELSE 1, failed |-> FALSE,
         pc |-> IF cached THEN "resolved" ELSE "requested",
         res |-> IF cached THEN StoreGetSync(roomStore, r) ELSE Undefined]

\* a call of one of the operations.  The Room Store is initialized, so the
\* roomStore.get of a cached joinRoom resolves in the same task
RoomOpCall(op, r, u) ==
    /\ roomInit
    /\ Len(roomCalls) < MaxRoomCalls
    /\ op \in {"addUserToRoom", "removeUserFromRoom"} \/ u = LocalUser
    /\ roomCalls' = Append(roomCalls, NewRoomCall(op, r, u))
    /\ obs' = [op |-> "roomOpCalled", index |-> Len(roomCalls) + 1,
               cachedRoom |-> StoreGetSync(roomStore, r)]
    /\ UNCHANGED << userStore, userInit, roomStore, roomInit, joining >>
    /\ UNCHANGED << cursorVars, roomSubVars, userSubVars >>
    /\ UNCHANGED << setCalls, msgCalls >>

\* the Room Store after the then of call c, the server having answered with
\* `room` (createRoom and joinRoom parse it from the response)
RoomOpThen(c, room) ==
    CASE c.op \in {"createRoom", "joinRoom"} -> StoreSet(roomStore, room.id, room)
      [] c.op = "leaveRoom" -> RoomStorePop(roomStore, c.roomId)
      [] c.op = "addUserToRoom" -> RoomStoreAddUser(roomStore, c.roomId, c.userId)
      [] c.op = "removeUserFromRoom" ->
            RoomStoreRemoveUser(roomStore, c.roomId, c.userId)

\* the request of call i succeeds.  For createRoom the server chose the id
RoomOpOk(i, r, others) ==
    /\ roomCalls[i].pc = "requested"
    /\ roomCalls[i].op # "createRoom" => r = roomCalls[i].roomId
    /\ roomCalls[i].op \notin {"createRoom", "joinRoom"} => others = {}
    /\ LET c == roomCalls[i]
           room == IF c.op = "createRoom" THEN Room(r, others \cup {LocalUser})
                   ELSE JoinedRoom(r, others)
       IN  /\ roomStore' = RoomOpThen(c, room)
           /\ roomCalls' = [roomCalls EXCEPT ![i].pc = "resolved",
                                ![i].res = IF c.op \in {"createRoom", "joinRoom"}
                                           THEN room ELSE Undefined]
           /\ obs' = [op |-> "roomOpResolved", index |-> i,
                      stored |-> StoreGetSync(roomStore', r)]
    /\ UNCHANGED << userStore, userInit, roomInit, joining >>
    /\ UNCHANGED << cursorVars, roomSubVars, userSubVars >>
    /\ UNCHANGED << setCalls, msgCalls >>

\* the request of call i fails: the catch of the operation
RoomOpFail(i) ==
    /\ roomCalls[i].pc = "requested"
    /\ roomCalls' = [roomCalls EXCEPT ![i] = RoomOpCatch(@)]
    /\ obs' = [op |-> "roomOpFailed", index |-> i, storeBefore |-> roomStore]
    /\ UNCHANGED << userStore, userInit, roomStore, roomInit, joining >>
    /\ UNCHANGED << cursorVars, roomSubVars, userSubVars >>
    /\ UNCHANGED << setCalls, msgCalls >>

----------------------------------------------------------------------------
(* subscribeToRoom and readCursor, src/src/current-user.js 293-337, 107-118 *)

\* One record per subscribeToRoom call and the RoomSubscription it made:
\*   join          the joinRoom of the call: "cached", "requested", "ok", "failed"
\*   target        the instance the call invoked connect() on, 0 before that
\*   opens         whether those connect() calls open a channel
\*   msg, cur      the two connect() promises of the call: "none", "pending",
\*                 "ok", "failed"
\*   cancelled     cancel() was called on the instance
\*   msgConnects   connect() calls on the instance's messageSub (curConnects:
\*                 on its cursorSub)
\*   msgChans      open channels that deliver to the instance's messageSub
\*                 (curChans: to its cursorSub)
NewSub(r, hasHook, join) ==
    [roomId |-> r, hasHook |-> hasHook, join |-> join, target |-> 0,
     opens |-> FALSE, msg |-> "none", cur |-> "none", cancelled |-> FALSE,
     msgConnects |-> 0, curConnects |-> 0, msgChans |-> 0, curChans |-> 0]

\* how the promise subscribeToRoom returned stands
CallState(c) ==
    IF c.join = "failed" \/ c.msg = "failed" \/ c.cur = "failed" THEN "rejected"
    ELSE IF c.msg = "ok" /\ c.cur = "ok" THEN "resolved"
    ELSE "pending"

\* RoomSubscription.cancel: cancels the message and the cursor subscription
Cancel(c) == [c EXCEPT !.cancelled = TRUE, !.msgChans = 0, !.curChans = 0]

\* a promise callback is due: joinRoom returned roomStore.get(roomId) and the
\* Room Store is initialized
MicrotaskDue == roomInit /\ \E i \in DOMAIN subs : subs[i].join = "cached"

\* a newCursor hook of a room's subscription that forgets the self-echo test
RoomNewCursorNoSelfTest(hasHook, cursor) ==
    IF hasHook /\ cursor.type = ReadType THEN 1 ELSE 0

\* the newCursor hook subscribeToRoom gives the CursorSubscription of a room:
\* how many times it calls hooks.onNewReadCursor
RoomNewCursor(hasHook, cursor) ==
    IF hasHook /\ cursor.type = ReadType /\ cursor.userId # LocalUser
    THEN 1 ELSE 0

\* subscribeToRoom({ roomId, hooks }): the subscription of the room is
\* cancelled and replaced, then joinRoom is called
SubscribeToRoom(r, hasHook) ==
    /\ Len(subs) < MaxSubs
    /\ LET old == roomSubscriptions[r]
           cancelled == IF old # 0 THEN [subs EXCEPT ![old] = Cancel(@)] ELSE subs
           join == IF isMemberOf(r) THEN "cached" ELSE "requested"
       IN  /\ subs' = Append(cancelled, NewSub(r, hasHook, join))
           /\ roomSubscriptions' = [roomSubscriptions EXCEPT ![r] = Len(subs) + 1]
    /\ obs' = NoObs
    /\ UNCHANGED << userStore, userInit, roomStore, roomInit, joining >>
    /\ UNCHANGED << cursorVars, userSubVars >>
    /\ UNCHANGED opVars

\* connect() is called on the messageSub and the cursorSub of the instance that
\* roomSubscriptions[roomId] holds now.  A connect() after the first one on an
\* instance is outside the contract of a subscription: it may open one more
\* channel (dup) or none
Connect(ss, i, dup) ==
    LET j == roomSubscriptions[ss[i].roomId]
        first == ss[j].msgConnects = 0
    IN  [ss EXCEPT ![j].msgConnects = @ + 1,
                   ![j].curConnects = @ + 1,
                   ![i].target = j,
                   ![i].opens = first \/ dup,
                   ![i].msg = "pending",
                   ![i].cur = "pending"]

\* joinRoom found the room in the Room Store: roomStore.get(roomId) resolves
JoinCached(i, dup) ==
    /\ subs[i].join = "cached"
    /\ roomInit
    /\ subs' = Connect([subs EXCEPT ![i].join = "ok"], i, dup)
    /\ obs' = NoObs
    /\ UNCHANGED << userStore, userInit, roomStore, roomInit, joining,
                    roomSubscriptions >>
    /\ UNCHANGED << cursorVars, userSubVars >>
    /\ UNCHANGED opVars

\* the join request succeeds: roomStore.set(basicRoom.id, basicRoom), then the
\* two connect() calls
JoinOk(i, others, dup) ==
    /\ ~MicrotaskDue
    /\ subs[i].join = "requested"
    /\ roomStore' = StoreSet(roomStore, subs[i].roomId, JoinedRoom(subs[i].roomId, others))
    /\ subs' = Connect([subs EXCEPT ![i].join = "ok"], i, dup)
    /\ obs' = NoObs
    /\ UNCHANGED << userStore, userInit, roomInit, joining, roomSubscriptions >>
    /\ UNCHANGED << cursorVars, userSubVars >>
    /\ UNCHANGED opVars

\* the join request fails: logged twice and thrown again
JoinFail(i) ==
    /\ ~MicrotaskDue
    /\ subs[i].join = "requested"
    /\ subs' = [subs EXCEPT ![i].join = "failed"]
    /\ obs' = NoObs
    /\ UNCHANGED << userStore, userInit, roomStore, roomInit, joining,
                    roomSubscriptions >>
    /\ UNCHANGED << cursorVars, userSubVars >>
    /\ UNCHANGED opVars

\* messageSub.connect() of call i resolves: its channel is open, unless the
\* instance has been cancelled meanwhile
ConnectMsgOk(i) ==
    /\ ~MicrotaskDue
    /\ subs[i].msg = "pending"
    /\ LET j == subs[i].target
       IN  /\ ~subs[j].cancelled
           /\ subs' = [[subs EXCEPT ![i].msg = "ok"] EXCEPT
                          ![j].msgChans = IF subs[i].opens THEN @ + 1 ELSE @]
    /\ obs' = NoObs
    /\ UNCHANGED << userStore, userInit, roomStore, roomInit, joining,
                    roomSubscriptions >>
    /\ UNCHANGED << cursorVars, userSubVars >>
    /\ UNCHANGED opVars

\* cursorSub.connect() of call i resolves
ConnectCurOk(i) ==
    /\ ~MicrotaskDue
    /\ subs[i].cur = "pending"
    /\ LET j == subs[i].target
       IN  /\ ~subs[j].cancelled
           /\ subs' = [[subs EXCEPT ![i].cur = "ok"] EXCEPT
                          ![j].curChans = IF subs[i].opens THEN @ + 1 ELSE @]
    /\ obs' = NoObs
    /\ UNCHANGED << userStore, userInit, roomStore, roomInit, joining,
                    roomSubscriptions >>
    /\ UNCHANGED << cursorVars, userSubVars >>
    /\ UNCHANGED opVars

\* one of the two connect() calls of call i rejects, and with it Promise.all
ConnectFail(i, which) ==
    /\ ~MicrotaskDue
    /\ \/ which = "msg" /\ subs[i].msg = "pending"
          /\ subs' = [subs EXCEPT ![i].msg = "failed"]
       \/ which = "cur" /\ subs[i].cur = "pending"
          /\ subs' = [subs EXCEPT ![i].cur = "failed"]
    /\ obs' = NoObs
    /\ UNCHANGED << userStore, userInit, roomStore, roomInit, joining,
                    roomSubscriptions >>
    /\ UNCHANGED << cursorVars, userSubVars >>
    /\ UNCHANGED opVars

\* how many times an event of room r reaches the hooks of each instance
Receipts(r, kind) ==
    [i \in DOMAIN subs |->
        IF subs[i].roomId # r THEN 0
        ELSE IF kind = "cursor" THEN subs[i].curChans ELSE subs[i].msgChans]

\* a cursor is set in room r: every open cursor channel of the room delivers
\* the event; CursorSubscription sets the cursor in the Cursor Store and gives
\* it to newCursor
RoomCursorEvent(r, u, p, t) ==
    /\ ~MicrotaskDue
    /\ nEvents < MaxEvents
    /\ \E i \in DOMAIN subs : Receipts(r, "cursor")[i] > 0
    /\ LET basic == parseBasicCursor(RawCursor(u, r, p, t))
           got == Receipts(r, "cursor")
       IN  /\ cursorStore' = StoreSet(cursorStore, <<u, r>>, decorate(basic))
           /\ userFetches' = userFetches \cup MissingUsers({u})
           /\ getCalls' = MarkSet(getCalls, <<u, r>>, 0)
           /\ latestEvent' = [latestEvent EXCEPT ![<<u, r>>] = decorate(basic)]
           /\ obs' = [op |-> "roomCursorEvent", roomId |-> r,
                      cursor |-> decorate(basic),
                      current |-> roomSubscriptions[r],
                      receipts |-> got,
                      hookCalls |-> [i \in DOMAIN subs |->
                          got[i] * RoomNewCursor(subs[i].hasHook, decorate(basic))]]
    /\ serverCursor' = IF t = ReadType THEN [serverCursor EXCEPT ![<<u, r>>] = p]
                       ELSE serverCursor
    /\ nEvents' = nEvents + 1
    /\ UNCHANGED << cursorInit, requests, cursorSubPc, cursorHook, cursorChan >>
    /\ UNCHANGED << userStore, userInit, roomStore, roomInit, joining >>
    /\ UNCHANGED << roomSubVars, userSubVars >>
    /\ UNCHANGED opVars

\* a message of sender u is added to room r: every open message channel of the
\* room delivers the event; MessageSubscription ensures the sender is fetched
\* and calls the message hook
RoomMessageEvent(r, u) ==
    /\ ~MicrotaskDue
    /\ nEvents < MaxEvents
    /\ \E i \in DOMAIN subs : Receipts(r, "message")[i] > 0
    /\ userFetches' = userFetches \cup MissingUsers({u})
    /\ obs' = [op |-> "roomMessageEvent", roomId |-> r,
               current |-> roomSubscriptions[r],
               receipts |-> Receipts(r, "message")]
    /\ nEvents' = nEvents + 1
    /\ UNCHANGED << cursorStore, cursorInit, serverCursor, requests, getCalls,
                    cursorSubPc, cursorHook, cursorChan, latestEvent >>
    /\ UNCHANGED << userStore, userInit, roomStore, roomInit, joining >>
    /\ UNCHANGED << roomSubVars, userSubVars >>
    /\ UNCHANGED opVars

\* the local user is subscribed to room r: a subscribeToRoom of r has not
\* failed and its subscription has not been cancelled
Subscribed(r) ==
    \E i \in DOMAIN subs :
        /\ subs[i].roomId = r
        /\ ~subs[i].cancelled
        /\ CallState(subs[i]) # "rejected"

\* readCursor({ roomId, userId }): whether it throws the TypeError
ReadCursorThrows(u, r) == u # LocalUser /\ roomSubscriptions[r] = 0

ReadCursor(u, r) ==
    /\ obs' = [op |-> "readCursor", userId |-> u, roomId |-> r,
               subscribed |-> Subscribed(r),
               stored |-> cursorStore[<<u, r>>],
               threw |-> ReadCursorThrows(u, r),
               value |-> IF ReadCursorThrows(u, r) THEN Undefined ELSE getSync(u, r)]
    /\ UNCHANGED << userStore, userInit, roomStore, roomInit, joining >>
    /\ UNCHANGED << cursorVars, roomSubVars, userSubVars >>
    /\ UNCHANGED opVars

----------------------------------------------------------------------------
(* establishUserSubscription and initializeUserStore,
   src/src/current-user.js 407-431, 474-482 *)

\* the lists of rooms connect() of the User Subscription can resolve with:
\* rooms of the local user with their members, no room twice
BasicRooms ==
    {Room(r, ids \cup {LocalUser}) : r \in Rooms, ids \in SUBSET (Users \ {LocalUser})}

BasicRoomLists ==
    {<< >>} \cup {<<x>> : x \in BasicRooms}
            \cup {l \in BasicRooms \X BasicRooms : l[1].id # l[2].id}

\* indexBy(prop('id'), basicRooms): the rooms of a list, under their ids
IndexedById(list) ==
    [r \in Rooms |-> IF \E i \in DOMAIN list : list[i].id = r
                     THEN list[CHOOSE i \in DOMAIN list : list[i].id = r]
                     ELSE Absent]

\* a computation of the ids that leaves the other users out
InitialUserIdsOwnOnly(rs) ==
    {u \in UNION {room.userIds : room \in rs} : u = LocalUser}

\* uniq(chain(prop('userIds'), this.rooms))
InitialUserIds(rs) == UNION {room.userIds : room \in rs}

\* a chain without the catch: the failure reaches the next then
NotCaught(ok) == ok

\* fetchMissingUsers(...).catch(err => logger.warn(...)): the promise after
\* the catch is fulfilled whether the fetch was (ok) or not
Caught(ok) == TRUE

\* establishUserSubscription(hooks): the UserSubscription is made, connect()
EstablishUserSubscription ==
    /\ estPc = "idle"
    /\ estPc' = "connecting"
    /\ obs' = NoObs
    /\ UNCHANGED << basicRooms, fetchArg, fetchOutcome, pendingUserGets >>
    /\ UNCHANGED << userStore, userInit, roomStore, roomInit, joining >>
    /\ UNCHANGED << cursorVars, roomSubVars >>
    /\ UNCHANGED opVars

\* connect() resolves with { user, basicRooms }: roomStore.initialize, and in
\* the next microtask initializeUserStore calls fetchMissingUsers with the ids
\* of this.rooms.  With no user missing its promise is fulfilled without a
\* request and the User Store is initialized in the same task
UserSubConnected(list) ==
    /\ estPc = "connecting"
    /\ basicRooms' = list
    /\ roomStore' = StoreInitialize(roomStore, IndexedById(list))
    /\ roomInit' = TRUE
    /\ LET ids == InitialUserIds({roomStore'[r] : r \in StoreSnapshot(roomStore')})
       IN  /\ fetchArg' = ids
           /\ IF MissingUsers(ids) = {}
              THEN /\ fetchOutcome' = "ok"
                   /\ userInit' = TRUE
                   /\ userStore' = StoreInitialize(userStore, EmptyEntries)
                   /\ obs' = [op |-> "userStoreInitialized", outcome |-> "ok",
                              released |-> pendingUserGets]
                   /\ pendingUserGets' = {}
                   /\ estPc' = "resolved"
              ELSE /\ fetchOutcome' = "pending"
                   /\ estPc' = "fetchingUsers"
                   /\ obs' = NoObs
                   /\ UNCHANGED << userInit, userStore, pendingUserGets >>
    /\ UNCHANGED joining
    /\ UNCHANGED << cursorVars, roomSubVars >>
    /\ UNCHANGED opVars

\* connect() rejects: the catch of establishUserSubscription logs and throws
UserSubConnectFail ==
    /\ estPc = "connecting"
    /\ estPc' = "rejected"
    /\ obs' = NoObs
    /\ UNCHANGED << basicRooms, fetchArg, fetchOutcome, pendingUserGets >>
    /\ UNCHANGED << userStore, userInit, roomStore, roomInit, joining >>
    /\ UNCHANGED << cursorVars, roomSubVars >>
    /\ UNCHANGED opVars

\* fetchMissingUsers settles: the users in fetched were set in the User Store;
\* its promise is fulfilled (ok) or rejected.  Then the catch, and
\* userStore.initialize({}) releases the waiting gets
FetchMissingUsersSettle(fetched, ok) ==
    /\ estPc = "fetchingUsers"
    /\ fetched \subseteq MissingUsers(fetchArg)
    /\ fetchOutcome' = IF ok THEN "ok" ELSE "failed"
    /\ IF Caught(ok)
       THEN /\ userStore' = StoreInitialize(
                    [u \in Users |-> IF u \in fetched THEN User(u)
                                     ELSE userStore[u]], EmptyEntries)
            /\ userInit' = TRUE
            /\ obs' = [op |-> "userStoreInitialized",
                       outcome |-> fetchOutcome', released |-> pendingUserGets]
            /\ pendingUserGets' = {}
            /\ estPc' = "resolved"
       ELSE /\ userStore' = [u \in Users |-> IF u \in fetched THEN User(u)
                                             ELSE userStore[u]]
            /\ estPc' = "rejected"
            /\ obs' = NoObs
            /\ UNCHANGED << userInit, pendingUserGets >>
    /\ UNCHANGED << basicRooms, fetchArg >>
    /\ UNCHANGED << roomStore, roomInit, joining >>
    /\ UNCHANGED << cursorVars, roomSubVars >>
    /\ UNCHANGED opVars

\* userStore.get(u): resolves with the stored value once the store has been
\* initialized, waits until then
UserStoreGet(u) ==
    /\ IF userInit
       THEN /\ obs' = [op |-> "userGet", userId |-> u,
                       value |-> StoreGetSync(userStore, u)]
            /\ UNCHANGED pendingUserGets
       ELSE /\ u \notin pendingUserGets
            /\ pendingUserGets' = pendingUserGets \cup {u}
            /\ obs' = NoObs
    /\ UNCHANGED << estPc, basicRooms, fetchArg, fetchOutcome >>
    /\ UNCHANGED << userStore, userInit, roomStore, roomInit, joining >>
    /\ UNCHANGED << cursorVars, roomSubVars >>
    /\ UNCHANGED opVars

\* an event of the connected User Subscription: the local user was added to
\* room r, which is set in the Room Store
AddedToRoomEvent(r, others) ==
    /\ estPc \in {"fetchingUsers", "resolved"}
    /\ roomStore[r] = Absent
    /\ roomStore' = StoreSet(roomStore, r, JoinedRoom(r, others))
    /\ obs' = NoObs
    /\ UNCHANGED << userStore, userInit, roomInit, joining >>
    /\ UNCHANGED << cursorVars, roomSubVars, userSubVars >>
    /\ UNCHANGED opVars

----------------------------------------------------------------------------
(* fetchMessages and decorateMessage, src/src/current-user.js 264-291, 401-405 *)

\* the messages of a room on the server, as it sends them
RawMessage(id, u, r) == [kind |-> "json", id |-> id, user_id |-> u, room_id |-> r]

ServerMessages(r) == {RawMessage(1, "a", r), RawMessage(2, LocalUser, r),
                      RawMessage(3, "a", r)}

\* the responses to a fetch: some of the messages of the room, in any order
Responses(r) ==
    LET M == ServerMessages(r)
    IN  {<< >>} \cup {<<x>> : x \in M}
                \cup {l \in M \X M : l[1] # l[2]}
                \cup {l \in M \X M \X M : l[1] # l[2] /\ l[1] # l[3] /\ l[2] # l[3]}

parseBasicMessage(data) ==
    [kind |-> "BasicMessage", id |-> data.id, senderId |-> data.user_id,
     roomId |-> data.room_id]

\* a decoration that copies what the User Store holds
decorateMessageCopying(basicMessage) ==
    [kind |-> "Message", id |-> basicMessage.id, senderId |-> basicMessage.senderId,
     roomId |-> basicMessage.roomId, users |-> [live |-> FALSE, copy |-> userStore]]

\* decorateMessage: new Message(basicMessage, this.userStore, this.roomStore);
\* the message holds the store, not its entries
decorateMessage(basicMessage) ==
    [kind |-> "Message", id |-> basicMessage.id, senderId |-> basicMessage.senderId,
     roomId |-> basicMessage.roomId, users |-> [live |-> TRUE]]

\* message.sender: the user looked up in the store the message holds
MessageSender(m) ==
    IF m.users.live THEN StoreGetSync(userStore, m.senderId)
    ELSE StoreGetSync(m.users.copy, m.senderId)

MapMessages(list) == [i \in DOMAIN list |-> decorateMessage(parseBasicMessage(list[i]))]

SenderIds(messages) == {messages[i].senderId : i \in DOMAIN messages}

\* a comparator that orders by descending id
CompareByIdDescending(x, y) == y.id - x.id

\* the comparator of fetchMessages: (x, y) => x.id - y.id
CompareById(x, y) == x.id - y.id

\* sort(comparator, list): a sorted copy, equal elements in their order
RECURSIVE InsertSorted(_, _)
InsertSorted(sorted, x) ==
    IF sorted = << >> THEN << x >>
    ELSE IF CompareById(x, Head(sorted)) < 0 THEN << x >> \o sorted
    ELSE << Head(sorted) >> \o InsertSorted(Tail(sorted), x)

RECURSIVE SortMessages(_)
SortMessages(list) ==
    IF list = << >> THEN << >>
    ELSE InsertSorted(SortMessages(SubSeq(list, 1, Len(list) - 1)), list[Len(list)])

\* a user whose name is known
UserNamed(u, n) == [kind |-> "User", id |-> u, name |-> n]

\* fetchMessages({ roomId }): the request
FetchMessages(r) ==
    /\ Len(msgCalls) < MaxFetches
    /\ msgCalls' = Append(msgCalls,
            [roomId |-> r, pc |-> "requested", messages |-> << >>,
             fetchArg |-> {}, fetchDone |-> FALSE, usersThen |-> userStore,
             res |-> << >>])
    /\ obs' = NoObs
    /\ UNCHANGED << userStore, userInit, roomStore, roomInit, joining >>
    /\ UNCHANGED << cursorVars, roomSubVars, userSubVars >>
    /\ UNCHANGED << setCalls, roomCalls >>

\* the response arrives: the messages are parsed and decorated and
\* fetchMissingUsers is called with their senders; with no sender missing it
\* is fulfilled without a request and the call resolves in the same task
FetchMessagesResponse(i, resp) ==
    /\ msgCalls[i].pc = "requested"
    /\ resp \in Responses(msgCalls[i].roomId)
    /\ LET messages == MapMessages(resp)
           ids == SenderIds(messages)
           done == MissingUsers(ids) = {}
       IN  msgCalls' = [msgCalls EXCEPT ![i] =
                [@ EXCEPT !.messages = messages, !.fetchArg = ids,
                          !.usersThen = userStore, !.fetchDone = done,
                          !.pc = IF done THEN "resolved" ELSE "fetchingUsers",
                          !.res = IF done THEN SortMessages(messages) ELSE << >>]]
    /\ obs' = NoObs
    /\ UNCHANGED << userStore, userInit, roomStore, roomInit, joining >>
    /\ UNCHANGED << cursorVars, roomSubVars, userSubVars >>
    /\ UNCHANGED << setCalls, roomCalls >>

\* fetchMissingUsers settles: the users in fetched were set; fulfilled, the
\* call resolves with the sorted messages; rejected, the catch throws again
FetchMessagesUsersSettle(i, fetched, ok) ==
    /\ msgCalls[i].pc = "fetchingUsers"
    /\ fetched \subseteq MissingUsers(msgCalls[i].fetchArg)
    /\ ok => fetched = MissingUsers(msgCalls[i].fetchArg)
    /\ userStore' = [u \in Users |-> IF u \in fetched THEN User(u) ELSE userStore[u]]
    /\ msgCalls' = [msgCalls EXCEPT ![i] =
            [@ EXCEPT !.fetchDone = TRUE,
                      !.pc = IF ok THEN "resolved" ELSE "rejected",
                      !.res = IF ok THEN SortMessages(msgCalls[i].messages) ELSE << >>]]
    /\ obs' = NoObs
    /\ UNCHANGED << userInit, roomStore, roomInit, joining >>
    /\ UNCHANGED << cursorVars, roomSubVars, userSubVars >>
    /\ UNCHANGED << setCalls, roomCalls >>

\* the request fails: the catch logs and throws again
FetchMessagesFail(i) ==
    /\ msgCalls[i].pc = "requested"
    /\ msgCalls' = [msgCalls EXCEPT ![i].pc = "rejected"]
    /\ obs' = NoObs
    /\ UNCHANGED << userStore, userInit, roomStore, roomInit, joining >>
    /\ UNCHANGED << cursorVars, roomSubVars, userSubVars >>
    /\ UNCHANGED << setCalls, roomCalls >>

\* a subscription sets user u in the User Store, with the name it received
UserStoreSet(u, n) ==
    /\ userStore[u] # UserNamed(u, n)
    /\ userStore' = StoreSet(userStore, u, UserNamed(u, n))
    /\ obs' = NoObs
    /\ UNCHANGED << userInit, roomStore, roomInit, joining >>
    /\ UNCHANGED << cursorVars, roomSubVars, userSubVars, opVars >>

\* the application reads the sender of the j-th message call i resolved with
ReadSender(i, j) ==
    /\ msgCalls[i].pc = "resolved"
    /\ j \in DOMAIN msgCalls[i].res
    /\ obs' = [op |-> "readSender", index |-> i, message |-> msgCalls[i].res[j],
               value |-> MessageSender(msgCalls[i].res[j])]
    /\ UNCHANGED << userStore, userInit, roomStore, roomInit, joining >>
    /\ UNCHANGED << cursorVars, roomSubVars, userSubVars, opVars >>

----------------------------------------------------------------------------
(* The validation of the arguments of the public operations,
   src/src/current-user.js 91-382.  An argument is modelled by its type *)

Tags == {"undefined", "number", "string", "object"}
HookTags == {"undefined", "functions", "nonFunctions"}
NoAttachment == [kind |-> "undefined"]

\* the attachments sendMessage can be given: none, or an object whose fields
\* file, name, link and type have these types
Attachments ==
    {NoAttachment} \cup
    [kind : {"object"}, file : Tags \ {"number"}, name : Tags \ {"number"},
     link : Tags \ {"number"}, type : Tags \ {"number"}]

PublicOps == {"setReadCursor", "readCursor", "isTypingIn", "joinRoom", "leaveRoom",
              "addUserToRoom", "removeUserFromRoom", "sendMessage",
              "fetchMessages", "subscribeToRoom", "updateRoom", "deleteRoom"}

\* typeCheck(name, expectedType, value) throws unless typeof value is the type
typeCheck(type, value) == value = type

\* typeCheckObj('hooks', 'function', hooks), hooks = {} by default
typeCheckObj(hooks) == hooks # "nonFunctions"

Check(arg, type) == [kind |-> "check", arg |-> arg, type |-> type]
Effect(what) == [kind |-> "effect", what |-> what]

\* isDataAttachment and isLinkAttachment: "no", "yes" or "throws"
isDataAttachment(a) ==
    IF a.file = "undefined" \/ a.name = "undefined" THEN "no"
    ELSE IF typeCheck("object", a.file) /\ typeCheck("string", a.name) THEN "yes"
    ELSE "throws"

isLinkAttachment(a) ==
    IF a.link = "undefined" \/ a.type = "undefined" THEN "no"
    ELSE IF typeCheck("string", a.link) /\ typeCheck("string", a.type) THEN "yes"
    ELSE "throws"

\* the executor of the promise of sendMessage: what happens before the request
\* of the message: "upload" (uploadDataAttachment, a request), "pass", "reject"
AttachmentStep(a) ==
    IF a = NoAttachment THEN "pass"
    ELSE IF isDataAttachment(a) = "throws" THEN "reject"
    ELSE IF isDataAttachment(a) = "yes" THEN "upload"
    ELSE IF isLinkAttachment(a) = "throws" THEN "reject"
    ELSE IF isLinkAttachment(a) = "yes" THEN "pass"
    ELSE "reject"

\* subscribeToRoom with the validation after the cancellation
OpStepsCancelFirst(op) ==
    IF op = "subscribeToRoom"
    THEN << Effect("cancelSubscription"), Check("roomId", "number"),
            [kind |-> "checkObj", arg |-> "hooks"],
            Effect("createSubscription"), Effect("request") >>
    ELSE << Effect("request"), Check("roomId", "number") >>

\* what each operation does, in the order of its statements; the optional
\* arguments (name, initialId, limit, direction, messageLimit) are not given
OpSteps(op) ==
    CASE op = "setReadCursor" ->
            << Check("roomId", "number"), Check("position", "number"),
               Effect("request") >>
      [] op = "readCursor" ->
            << Check("roomId", "number"), Check("userId", "string"),
               Effect("getSync") >>
      [] op \in {"addUserToRoom", "removeUserFromRoom"} ->
            << Check("userId", "string"), Check("roomId", "number"),
               Effect("request") >>
      [] op = "sendMessage" ->
            << Check("text", "string"), Check("roomId", "number"),
               [kind |-> "attachment"], Effect("request") >>
      [] op = "subscribeToRoom" ->
            << Check("roomId", "number"), [kind |-> "checkObj", arg |-> "hooks"],
               Effect("cancelSubscription"), Effect("createSubscription"),
               Effect("request") >>
      [] OTHER -> << Check("roomId", "number"), Effect("request") >>

\* the statements of `steps` from the n-th on, run with the arguments args:
\* whether the call failed and what it did before
RECURSIVE RunSteps(_, _, _, _)
RunSteps(steps, n, args, done) ==
    IF n > Len(steps) THEN [threw |-> FALSE, effects |-> done]
    ELSE LET st == steps[n]
         IN  CASE st.kind = "check" ->
                    IF typeCheck(st.type, args[st.arg])
                    THEN RunSteps(steps, n + 1, args, done)
                    ELSE [threw |-> TRUE, effects |-> done]
               [] st.kind = "checkObj" ->
                    IF typeCheckObj(args[st.arg])
                    THEN RunSteps(steps, n + 1, args, done)
                    ELSE [threw |-> TRUE, effects |-> done]
               [] st.kind = "attachment" ->
                    CASE AttachmentStep(args.attachment) = "reject" ->
                            [threw |-> TRUE, effects |-> done]
                      [] AttachmentStep(args.attachment) = "upload" ->
                            RunSteps(steps, n + 1, args, done \cup {"request"})
                      [] OTHER -> RunSteps(steps, n + 1, args, done)
               [] st.kind = "effect" ->
                    RunSteps(steps, n + 1, args, done \cup {st.what})

\* the arguments an operation reads
ArgsOf(op) ==
    CASE op = "setReadCursor" -> {"roomId", "position"}
      [] op \in {"readCursor", "addUserToRoom", "removeUserFromRoom"} ->
            {"roomId", "userId"}
      [] op = "sendMessage" -> {"roomId", "text", "attachment"}
      [] op = "subscribeToRoom" -> {"roomId", "hooks"}
      [] OTHER -> {"roomId"}

\* the arguments a call can be given; readCursor's userId is this.id by default
CallArgs(op) ==
    {a \in [roomId : Tags, userId : Tags, position : Tags, text : Tags,
            hooks : HookTags, attachment : Attachments] :
        /\ "userId" \notin ArgsOf(op) => a.userId = "undefined"
        /\ op = "readCursor" => a.userId # "undefined"
        /\ "position" \notin ArgsOf(op) => a.position = "undefined"
        /\ "text" \notin ArgsOf(op) => a.text = "undefined"
        /\ "hooks" \notin ArgsOf(op) => a.hooks = "undefined"
        /\ "attachment" \notin ArgsOf(op) => a.attachment = NoAttachment}

\* a call of a public operation: what it did is observed; the effects of the
\* calls whose arguments pass are those of the actions of the operations
PublicCall(op, args) ==
    /\ obs' = [op |-> "publicCall", name |-> op, args |-> args,
               outcome |-> RunSteps(OpSteps(op), 1, args, {})]
    /\ UNCHANGED << userStore, userInit, roomStore, roomInit, joining >>
    /\ UNCHANGED << cursorVars, roomSubVars, userSubVars, opVars >>

----------------------------------------------------------------------------
(* The state after construction, src/src/current-user.js 42-79 *)

Init ==
    /\ cursorStore = [k \in Keys |-> Absent]
    /\ cursorInit = FALSE
    /\ userStore = [u \in Users |-> Absent]
    /\ userInit = FALSE
    /\ roomStore = [r \in Rooms |-> Absent]
    /\ roomInit = FALSE
    /\ serverCursor = [k \in Keys |-> 0]
    /\ requests = [k \in Keys |-> 0]
    /\ getCalls = << >>
    /\ cursorSubPc = "idle"
    /\ cursorHook = FALSE
    /\ cursorChan = << >>
    /\ nEvents = 0
    /\ userFetches = {}
    /\ latestEvent = [k \in Keys |-> Absent]
    /\ roomSubscriptions = [r \in Rooms |-> 0]
    /\ subs = << >>
    /\ joining = {}
    /\ estPc = "idle"
    /\ basicRooms = << >>
    /\ fetchArg = {}
    /\ fetchOutcome = "none"
    /\ pendingUserGets = {}
    /\ setCalls = << >>
    /\ roomCalls = << >>
    /\ msgCalls = << >>
    /\ obs = NoObs

(* The Cursor Store and the cursor subscription of the user *)

NextCursor ==
    \/ \E u \in Users, r \in WatchedRooms : GetCall(u, r)
    \/ \E i \in DOMAIN getCalls : ServerAnswer(i)
    \/ \E i \in DOMAIN getCalls : FetchFail(i)
    \/ \E i \in DOMAIN getCalls : GetResponse(i)
    \/ \E i \in DOMAIN getCalls, ok \in BOOLEAN : GetSetSettle(i, ok)
    \/ EstablishCursorSubscription(FALSE)
    \/ CursorSubConnected
    \/ CursorSubFailed
    \/ \E u \in Users, r \in WatchedRooms, p \in Positions :
            ServerSetCursor(u, r, p, ReadType)
    \/ DeliverCursorEvent
    \/ \E u \in Users, ok \in BOOLEAN : UserFetchSettle(u, ok)

SpecCursor == Init /\ [][NextCursor]_vars

(* The cursor subscription of the user, its events and the rooms joined *)

NextCursorSub ==
    \/ \E h \in BOOLEAN : EstablishCursorSubscription(h)
    \/ CursorSubConnected
    \/ CursorSubFailed
    \/ \E r \in Rooms, p \in Positions, t \in CursorTypes :
            ServerSetCursor(LocalUser, r, p, t)
    \/ DeliverCursorEvent
    \/ \E u \in Users, ok \in BOOLEAN : UserFetchSettle(u, ok)
    \/ \E r \in Rooms : JoinRoom(r)
    \/ \E r \in Rooms, others \in SUBSET (Users \ {LocalUser}) : JoinRoomOk(r, others)
    \/ \E r \in Rooms : JoinRoomFail(r)

SpecCursorSub == Init /\ [][NextCursorSub]_vars

(* The subscriptions of rooms.  The session is established: the User
   Subscription connected with an empty list of rooms and the cursor
   subscription of the user connected *)

InitRoom ==
    /\ cursorStore = [k \in Keys |-> Absent]
    /\ cursorInit = TRUE
    /\ userStore = [u \in Users |-> Absent]
    /\ userInit = TRUE
    /\ roomStore = [r \in Rooms |-> Absent]
    /\ roomInit = TRUE
    /\ serverCursor = [k \in Keys |-> 0]
    /\ requests = [k \in Keys |-> 0]
    /\ getCalls = << >>
    /\ cursorSubPc = "resolved"
    /\ cursorHook = FALSE
    /\ cursorChan = << >>
    /\ nEvents = 0
    /\ userFetches = {}
    /\ latestEvent = [k \in Keys |-> Absent]
    /\ roomSubscriptions = [r \in Rooms |-> 0]
    /\ subs = << >>
    /\ joining = {}
    /\ estPc = "resolved"
    /\ basicRooms = << >>
    /\ fetchArg = {}
    /\ fetchOutcome = "ok"
    /\ pendingUserGets = {}
    /\ setCalls = << >>
    /\ roomCalls = << >>
    /\ msgCalls = << >>
    /\ obs = NoObs

NextRoom ==
    \/ \E r \in WatchedRooms, h \in BOOLEAN : SubscribeToRoom(r, h)
    \/ \E i \in DOMAIN subs, dup \in BOOLEAN : JoinCached(i, dup)
    \/ \E i \in DOMAIN subs, dup \in BOOLEAN : JoinOk(i, {}, dup)
    \/ \E i \in DOMAIN subs : JoinFail(i)
    \/ \E i \in DOMAIN subs : ConnectMsgOk(i)
    \/ \E i \in DOMAIN subs : ConnectCurOk(i)
    \/ \E i \in DOMAIN subs, which \in {"msg", "cur"} : ConnectFail(i, which)
    \/ \E r \in WatchedRooms, u \in Users, p \in Positions, t \in CursorTypes :
            RoomCursorEvent(r, u, p, t)
    \/ \E r \in WatchedRooms, u \in Users : RoomMessageEvent(r, u)
    \/ \E u \in Users, r \in Rooms : ReadCursor(u, r)

SpecRoom == InitRoom /\ [][NextRoom]_vars

(* The User Subscription is established on the constructed user *)

NextUser ==
    \/ EstablishUserSubscription
    \/ \E list \in BasicRoomLists : UserSubConnected(list)
    \/ UserSubConnectFail
    \/ \E fetched \in SUBSET Users, ok \in BOOLEAN :
            FetchMissingUsersSettle(fetched, ok)
    \/ \E u \in Users : UserStoreGet(u)
    \/ \E r \in Rooms, others \in SUBSET (Users \ {LocalUser}) :
            AddedToRoomEvent(r, others)

SpecUser == Init /\ [][NextUser]_vars

(* The stores, written by set before and after they are initialized *)

NextStore ==
    \/ \E u \in Users, r \in WatchedRooms, p \in Positions :
            SetCall(u, r, p, ReadType)
    \/ \E i \in DOMAIN setCalls, ok \in BOOLEAN : SetSettle(i, ok)
    \/ EstablishCursorSubscription(FALSE)
    \/ CursorSubConnected
    \/ CursorSubFailed
    \/ EstablishUserSubscription
    \/ \E list \in BasicRoomLists : UserSubConnected(list)
    \/ UserSubConnectFail
    \/ \E fetched \in SUBSET Users, ok \in BOOLEAN :
            FetchMissingUsersSettle(fetched, ok)

SpecStore == Init /\ [][NextStore]_vars

(* The operations on rooms of an established session *)

NextRoomOps ==
    \/ \E op \in RoomOps, r \in Rooms, u \in Users : RoomOpCall(op, r, u)
    \/ \E i \in DOMAIN roomCalls, r \in Rooms, others \in SUBSET (Users \ {LocalUser}) :
            RoomOpOk(i, r, others)
    \/ \E i \in DOMAIN roomCalls : RoomOpFail(i)

SpecRoomOps == InitRoom /\ [][NextRoomOps]_vars

(* The public operations called with arguments of every type *)

NextValidation == \E op \in PublicOps : \E args \in CallArgs(op) : PublicCall(op, args)

SpecValidation == InitRoom /\ [][NextValidation]_vars

(* The messages fetched in an established session and their senders *)

NextMessages ==
    \/ \E r \in WatchedRooms : FetchMessages(r)
    \/ \E i \in DOMAIN msgCalls : \E resp \in Responses(msgCalls[i].roomId) :
            FetchMessagesResponse(i, resp)
    \/ \E i \in DOMAIN msgCalls, fetched \in SUBSET Users, ok \in BOOLEAN :
            FetchMessagesUsersSettle(i, fetched, ok)
    \/ \E i \in DOMAIN msgCalls : FetchMessagesFail(i)
    \/ \E n \in {"n1", "n2"} : UserStoreSet("a", n)
    \/ \E i \in DOMAIN msgCalls, j \in 1..3 : ReadSender(i, j)

SpecMessages == InitRoom /\ [][NextMessages]_vars

----------------------------------------------------------------------------
(* The claims about the Cursor Store *)

\* a get of (u, r) made after an earlier get of (u, r) resolved, with no set
\* of (u, r) by anyone else in between or while it runs
Sequel(j) == getCalls[j].prev # 0 /\ ~getCalls[j].disturbed

\* C1: once a CursorStore.get(u, r) has completed and stored its result, a
\* later get(u, r) with no intervening set issues no network request, whether
\* the first fetch found a cursor or none
C1_NoRequestAfterCompletedGet ==
    \A j \in DOMAIN getCalls : Sequel(j) => ~getCalls[j].fetched

\* C2: two CursorStore.get(u, r) calls in sequence with no intervening set
\* resolve to the same decorated cursor value, the first a miss or a hit
C2_SequentialGetsAgree ==
    \A j \in DOMAIN getCalls :
        (Sequel(j) /\ getCalls[j].pc = "resolved")
            => getCalls[j].res = getCalls[getCalls[j].prev].res

\* C3: after a cursor event for (u, r) has been applied, a synchronous read of
\* (u, r) returns that event's cursor until a later event for (u, r) is
\* applied, also when the fetch of a get issued before the event completes
\* after it
C3_ReadReturnsLatestEvent ==
    \A k \in Keys :
        latestEvent[k] # Absent => getSync(k[1], k[2]) = latestEvent[k]

----------------------------------------------------------------------------
(* The claims about the cursor subscription of the user *)

UserEventSeen == obs.op = "userCursorEvent"

\* C8, as claimed: the user-scoped Cursor Subscription forwards a cursor event
\* to onNewReadCursor only if it is a read cursor (type 0) and not the local
\* user's own cursor
C8_UserSubFiltersOwnCursor ==
    (UserEventSeen /\ obs.hookCalls > 0)
        => (obs.cursor.type = ReadType /\ obs.cursor.userId # LocalUser)

\* C8, amended: the user-scoped Cursor Subscription forwards a cursor event to
\* onNewReadCursor, once, exactly if the hook was supplied, the cursor is a read
\* cursor (type 0) and its room is in the local Room Store; the cursor's user
\* is not looked at
C8_UserSubFiltersByMembership ==
    UserEventSeen =>
        obs.hookCalls =
            IF cursorHook /\ obs.cursor.type = ReadType /\ obs.member THEN 1 ELSE 0

C8_OwnCursorForwarded ==
    /\ UserEventSeen
    /\ obs.hookCalls = 1
    /\ obs.cursor.userId = LocalUser

----------------------------------------------------------------------------
(* The claims about the subscriptions of rooms *)

RoomEventSeen == obs.op \in {"roomCursorEvent", "roomMessageEvent"}

\* C4: over any sequence of subscribeToRoom calls for a room, also one made
\* while the joinRoom of an earlier one is in flight, the earlier Room
\* Subscription is cancelled before it is replaced, and each inbound room event
\* reaches the hooks of at most one subscription, the one created last, once
C4_EventReachesLatestSubscriptionOnce ==
    /\ \A i \in DOMAIN subs :
          roomSubscriptions[subs[i].roomId] # i => subs[i].cancelled
    /\ RoomEventSeen =>
          \A i \in DOMAIN obs.receipts :
              obs.receipts[i] > 0 => (i = obs.current /\ obs.receipts[i] = 1)

\* C5: connect() is invoked at most once on every MessageSubscription and
\* CursorSubscription that subscribeToRoom creates, however the calls for a
\* room and the completions of their joinRoom requests interleave
C5_ConnectAtMostOnce ==
    \A i \in DOMAIN subs : subs[i].msgConnects <= 1 /\ subs[i].curConnects <= 1

\* C6: readCursor with the id of another user raises the state error whenever
\* the local user is not subscribed to the room, also after a subscribeToRoom
\* of the room has failed; with the local user's id it never raises and
\* returns the synchronous value of the Cursor Store
C6_ReadCursorNeedsSubscription ==
    obs.op = "readCursor" =>
        /\ (obs.userId # LocalUser /\ ~obs.subscribed) => obs.threw
        /\ obs.userId = LocalUser =>
              /\ ~obs.threw
              /\ obs.value = IF obs.stored = Absent THEN Undefined ELSE obs.stored

\* C7: every receipt of a cursor event by the Room Subscription of local user L
\* calls onNewReadCursor exactly once if the cursor has type 0 and a user other
\* than L, and not at all if the cursor is L's, its type is not 0 or the hook
\* was not supplied
C7_RoomHookFilter ==
    obs.op = "roomCursorEvent" =>
        \A i \in DOMAIN obs.receipts :
            obs.hookCalls[i] =
                IF /\ subs[i].hasHook
                   /\ obs.cursor.type = ReadType
                   /\ obs.cursor.userId # LocalUser
                THEN obs.receipts[i] ELSE 0

C7_HookCalledOnce ==
    /\ obs.op = "roomCursorEvent"
    /\ \E i \in DOMAIN obs.receipts : obs.receipts[i] = 1 /\ obs.hookCalls[i] = 1
    /\ \A i \in DOMAIN obs.receipts : obs.hookCalls[i] <= 1

----------------------------------------------------------------------------
(* The claims about the User Subscription *)

SnapshotUserIds == UNION {basicRooms[i].userIds : i \in DOMAIN basicRooms}

\* C9: the User Store is marked initialized only after the Room Store was
\* initialized from basicRooms and fetchMissingUsers was invoked with every
\* user id in the member list of any room of that list, and has settled
C9_UserStoreInitializedLast ==
    userInit =>
        /\ roomInit
        /\ \A i \in DOMAIN basicRooms : roomStore[basicRooms[i].id] = basicRooms[i]
        /\ SnapshotUserIds \subseteq fetchArg
        /\ fetchOutcome \in {"ok", "failed"}

C9_InitializedAfterFetchOfMembers ==
    /\ obs.op = "userStoreInitialized"
    /\ userInit
    /\ Len(basicRooms) = 2
    /\ SnapshotUserIds = Users
    /\ fetchArg = Users
    /\ fetchOutcome = "ok"
    /\ userStore["a"] = User("a")

\* C10: when the fetch of the missing users fails during the initial
\* population, establishUserSubscription is resolved, not rejected, the User
\* Store is marked initialized and no call of its get is left waiting
C10_FetchFailureSwallowed ==
    fetchOutcome = "failed" =>
        /\ estPc = "resolved"
        /\ userInit
        /\ pendingUserGets = {}

C10_WaitingGetsReleasedOnFailure ==
    /\ obs.op = "userStoreInitialized"
    /\ obs.outcome = "failed"
    /\ obs.released = Users
    /\ estPc = "resolved"
    /\ userStore["a"] = Absent

----------------------------------------------------------------------------
(* The claims about the stores and their initialization *)

\* C11: the entries written with set before a store's initialize keep their
\* values across it: the step that initializes the Cursor Store after connect
\* and the step that initializes the User Store leave every entry that was
\* present as it was
C11_InitializeKeepsEntries ==
    [][ /\ (cursorInit' /\ ~cursorInit) =>
              \A k \in Keys : cursorStore[k] # Absent => cursorStore'[k] = cursorStore[k]
        /\ (userInit' /\ ~userInit) =>
              \A u \in Users : userStore[u] # Absent => userStore'[u] = userStore[u]
      ]_vars

C11_EarlyEntriesPresent ==
    /\ cursorInit
    /\ userInit
    /\ \E i \in DOMAIN setCalls :
          /\ setCalls[i].early
          /\ setCalls[i].userId = "a"
          /\ setCalls[i].pc = "resolved"
          /\ cursorStore[CallKey(setCalls[i])] = decorate(setCalls[i].cursor)
    /\ userStore["a"] = User("a")

\* C12: after any sequence of CursorStore.set calls for (u, r) the cursor read
\* for (u, r) is the decoration of the one given last, whatever the order of
\* the positions; a set whose user is missing has a fetch of that user in
\* flight, and a set has resolved only when the store was written and that
\* fetch has settled
C12_LastSetWins ==
    /\ \A k \in Keys :
          LastSet(k) # 0 => getSync(k[1], k[2]) = decorate(setCalls[LastSet(k)].cursor)
    /\ \A i \in DOMAIN setCalls :
          /\ setCalls[i].pc = "pending" => setCalls[i].fetching
          /\ setCalls[i].pc = "resolved" =>
                setCalls[i].written /\ ~setCalls[i].fetching

C12_LowerPositionLast ==
    /\ Len(setCalls) = 2
    /\ CallKey(setCalls[1]) = CallKey(setCalls[2])
    /\ setCalls[1].cursor.position = 2
    /\ setCalls[2].cursor.position = 1
    /\ setCalls[1].pc = "resolved"
    /\ setCalls[2].pc = "resolved"
    /\ getSync(setCalls[2].userId, setCalls[2].roomId).position = 1

----------------------------------------------------------------------------
(* More claims about CursorStore.get *)

FetchedCalls(k) == {i \in DOMAIN getCalls : CallKey(getCalls[i]) = k /\ getCalls[i].fetched}

\* C13: every CursorStore.get that finds its key absent issues a request of
\* its own: two calls of (u, r) that both miss before either fetch completes
\* make two requests, none is shared
C13_NoDeduplication ==
    \A k \in Keys :
        /\ requests[k] >= Cardinality(FetchedCalls(k))
        /\ (\A i \in DOMAIN getCalls :
                CallKey(getCalls[i]) = k => getCalls[i].pc # "settled")
              => requests[k] = Cardinality(FetchedCalls(k))

C13_TwoRequestsInFlight ==
    \E i, j \in DOMAIN getCalls :
        /\ i < j
        /\ CallKey(getCalls[i]) = CallKey(getCalls[j])
        /\ getCalls[i].pc = "requested"
        /\ getCalls[j].pc = "requested"
        /\ requests[CallKey(getCalls[i])] = 2

----------------------------------------------------------------------------
(* The claims about the operations on rooms *)

\* C14: when the request of createRoom, joinRoom, leaveRoom, addUserToRoom or
\* removeUserFromRoom fails, the operation is rejected, exactly one request
\* was issued for it and the Room Store is as it was before the failure
C14_FailedRoomOpRejects ==
    /\ \A i \in DOMAIN roomCalls :
          roomCalls[i].failed =>
              roomCalls[i].pc = "rejected" /\ roomCalls[i].requests = 1
    /\ obs.op = "roomOpFailed" =>
          roomCalls[obs.index].failed /\ roomStore = obs.storeBefore

C14_RejectedAndStoreKept ==
    /\ obs.op = "roomOpFailed"
    /\ roomCalls[obs.index].pc = "rejected"
    /\ \E r \in Rooms : roomStore[r] # Absent
    /\ \E i \in DOMAIN roomCalls : roomCalls[i].pc = "resolved"

\* C19: joinRoom of a room that is in the Room Store issues no request and
\* resolves with the cached room; of any other room it issues exactly one
\* request and, when that succeeds, the room the server returned is in the
\* Room Store as the call resolves
C19_JoinRoomCachedOrOnce ==
    /\ \A i \in DOMAIN roomCalls :
          roomCalls[i].op = "joinRoom" =>
              /\ roomCalls[i].requests = IF roomCalls[i].cached THEN 0 ELSE 1
              /\ roomCalls[i].cached =>
                    /\ roomCalls[i].pc = "resolved"
                    /\ roomCalls[i].res = Room(roomCalls[i].roomId, roomCalls[i].res.userIds)
    /\ (obs.op = "roomOpCalled" /\ roomCalls[obs.index].op = "joinRoom") =>
          /\ roomCalls[obs.index].cached = (obs.cachedRoom # Undefined)
          /\ roomCalls[obs.index].cached => roomCalls[obs.index].res = obs.cachedRoom
    /\ (obs.op = "roomOpResolved" /\ roomCalls[obs.index].op = "joinRoom") =>
          obs.stored = roomCalls[obs.index].res

C19_CachedAfterJoin ==
    /\ Len(roomCalls) = 2
    /\ roomCalls[1].op = "joinRoom" /\ roomCalls[1].requests = 1
    /\ roomCalls[1].pc = "resolved"
    /\ roomCalls[2].op = "joinRoom" /\ roomCalls[2].cached
    /\ roomCalls[2].res = roomCalls[1].res

----------------------------------------------------------------------------
(* The claims about validation *)

WellFormed(a) ==
    \/ a = NoAttachment
    \/ a.file = "object" /\ a.name = "string"
    \/ a.link = "string" /\ a.type = "string"

\* the call has an argument of the wrong type among roomId, userId, position,
\* text and hooks, or a malformed attachment
FailsValidation(op, args) ==
    \/ "roomId" \in ArgsOf(op) /\ args.roomId # "number"
    \/ "userId" \in ArgsOf(op) /\ args.userId # "string"
    \/ "position" \in ArgsOf(op) /\ args.position # "number"
    \/ "text" \in ArgsOf(op) /\ args.text # "string"
    \/ "hooks" \in ArgsOf(op) /\ args.hooks = "nonFunctions"
    \/ "attachment" \in ArgsOf(op) /\ ~WellFormed(args.attachment)

\* C15: a public operation called with an argument that fails validation
\* fails, and before it fails it has issued no request, created or cancelled
\* no subscription and written no store
C15_InvalidCallDoesNothing ==
    (obs.op = "publicCall" /\ FailsValidation(obs.name, obs.args)) =>
        /\ obs.outcome.threw
        /\ obs.outcome.effects = {}

C15_BadHooksRejected ==
    /\ obs.op = "publicCall"
    /\ obs.name = "subscribeToRoom"
    /\ obs.args.roomId = "number"
    /\ obs.args.hooks = "nonFunctions"
    /\ obs.outcome.threw
    /\ obs.outcome.effects = {}

\* C17: before the Cursor Store is initialized no get has resolved or issued a
\* request; the store is initialized only once the cursor subscription of the
\* user has connected; the step that initializes it releases every waiting
\* get; and once establishCursorSubscription has failed it stays failed and
\* every get stays pending, forever
AllGetsWaiting ==
    /\ \A i \in DOMAIN getCalls : getCalls[i].pc = "waiting" /\ ~getCalls[i].fetched
    /\ \A k \in Keys : requests[k] = 0

C17_GetWaitsForInitialize ==
    /\ [](~cursorInit => AllGetsWaiting)
    /\ [](cursorInit => cursorSubPc = "resolved")
    /\ [][(~cursorInit /\ cursorInit') =>
            \A i \in DOMAIN getCalls : getCalls'[i].pc # "waiting"]_vars
    /\ [](cursorSubPc = "rejected" => ~cursorInit /\ AllGetsWaiting)
    /\ [][cursorSubPc = "rejected" => cursorSubPc' = "rejected"]_vars

C17_PendingAfterFailure ==
    /\ cursorSubPc = "rejected"
    /\ getCalls # << >>
    /\ \A i \in DOMAIN getCalls : getCalls[i].pc = "waiting"

\* C18: a subscribeToRoom call has resolved only if its joinRoom succeeded and
\* both connect() promises were fulfilled; if its joinRoom failed, the call is
\* rejected and connect() has been invoked neither on the message subscription
\* nor on the cursor subscription it created
C18_SubscribeAfterJoinAndConnect ==
    \A i \in DOMAIN subs :
        /\ CallState(subs[i]) = "resolved" =>
                subs[i].join = "ok" /\ subs[i].msg = "ok" /\ subs[i].cur = "ok"
        /\ subs[i].join = "failed" =>
                /\ CallState(subs[i]) = "rejected"
                /\ subs[i].target = 0
                /\ subs[i].msgConnects = 0
                /\ subs[i].curConnects = 0

----------------------------------------------------------------------------
(* The claims about messages *)

\* C16: a decorated message holds the id of its sender and the User Store, not
\* a copy of the user: read through a message that is already held, the sender
\* is the value the User Store holds now, also when the entry was replaced by
\* a set after the message was decorated
C16_SenderReadThroughStore ==
    obs.op = "readSender" =>
        obs.value = StoreGetSync(userStore, obs.message.senderId)

C16_ReplacedSenderRead ==
    /\ obs.op = "readSender"
    /\ obs.message.senderId = "a"
    /\ msgCalls[obs.index].usersThen["a"] = UserNamed("a", "n1")
    /\ obs.value = UserNamed("a", "n2")

\* C20: fetchMessages resolves with exactly the messages of the response, in
\* strictly ascending order of their ids whatever the order of the response,
\* and only once fetchMissingUsers has completed for the distinct ids of their
\* senders
C20_FetchedMessagesSorted ==
    \A i \in DOMAIN msgCalls :
        msgCalls[i].pc = "resolved" =>
            LET res == msgCalls[i].res
                messages == msgCalls[i].messages
            IN  /\ Len(res) = Len(messages)
                /\ {res[j] : j \in DOMAIN res} = {messages[j] : j \in DOMAIN messages}
                /\ \A j, k \in DOMAIN res : j < k => res[j].id < res[k].id
                /\ msgCalls[i].fetchArg = SenderIds(messages)
                /\ msgCalls[i].fetchDone

C20_UnorderedResponseSorted ==
    \E i \in DOMAIN msgCalls :
        /\ msgCalls[i].pc = "resolved"
        /\ Len(msgCalls[i].messages) = 3
        /\ msgCalls[i].messages[1].id = 3
        /\ msgCalls[i].messages[2].id = 1
        /\ msgCalls[i].res[1].id = 1
        /\ msgCalls[i].res[3].id = 3
        /\ msgCalls[i].usersThen["a"] = Absent
        /\ userStore["a"] # Absent

============================================================================
